---- MODULE Spec2Model ----
(***************************************************************************)
(* Model of coverage_exercise.py: the pipeline                             *)
(*   create_df -> find_coverage_issues -> get_hgncs -> unique_gene_list    *)
(*   -> create_outputs                                                     *)
(* run once by main().  Text is modelled as sequences of one-character     *)
(* strings, so that splitting, regular-expression search, Python's         *)
(* substring test `in` and f-string joining are computed, not assumed.     *)
(***************************************************************************)
EXTENDS Integers, Sequences, FiniteSets, TLC

VARIABLES
    input_file,     \* sys.argv[1]
    pc,             \* position of main()
    output_prefix,  \* first result of create_df
    coverage_df,    \* second result of create_df
    issues_df,      \* result of find_coverage_issues, then of get_hgncs
    hgnc_df,        \* the HGNC dump as get_hgncs read it
    hgncs,          \* the list get_hgncs appends to
    acc_prefixes,   \* the value of acc_prefix in each pass of get_hgncs' loop
    problem_genes,  \* result of unique_gene_list
    error,          \* the uncaught exception that ended the run, if any
    text_file,      \* <prefix>.low_coverage_genes.txt on disk
    xlsx_file       \* <prefix>.low_coverage_gene_exons.xlsx on disk

vars == <<input_file, pc, output_prefix, coverage_df, issues_df, hgnc_df,
          hgncs, acc_prefixes, problem_genes, error, text_file,
          xlsx_file>>

-----------------------------------------------------------------------------
(* Bounds of the model.                                                    *)

MaxRows == 3        \* rows in the sambamba report
MaxRef  == 2        \* rows in the HGNC dump

-----------------------------------------------------------------------------
(* Values that are not text.                                               *)

None    == <<"<None>">>     \* Python None (second part of an unsplit value)
NaN     == <<"<NaN>">>      \* pandas NaN (an empty cell of the HGNC dump)
NoError == [type |-> "none", line |-> 0, msg |-> <<>>]
Absent  == [written |-> FALSE]      \* an output file the run has not touched

IsStr(v) == v # None /\ v # NaN

TAB == "\t"
NL  == "\n"

-----------------------------------------------------------------------------
(* Text helpers.                                                           *)

\* index of the first occurrence of character c in s, 0 if there is none
RECURSIVE FirstIndexFrom(_, _, _)
FirstIndexFrom(s, c, i) ==
    IF i > Len(s) THEN 0
    ELSE IF s[i] = c THEN i
    ELSE FirstIndexFrom(s, c, i + 1)

FirstIndex(s, c) == FirstIndexFrom(s, c, 1)

\* s starts with p at position i (1-based)
MatchesAt(s, p, i) ==
    /\ i >= 1
    /\ i + Len(p) - 1 <= Len(s)
    /\ \A k \in 1..Len(p) : s[i + k - 1] = p[k]

\* Python's  sub in s  for two str values
Contains(s, sub) == \E i \in 1..(Len(s) + 1) : MatchesAt(s, sub, i)

\* "sep".join(parts)
RECURSIVE Join(_, _)
Join(parts, sep) ==
    IF parts = <<>> THEN <<>>
    ELSE IF Len(parts) = 1 THEN parts[1]
    ELSE parts[1] \o sep \o Join(Tail(parts), sep)

-----------------------------------------------------------------------------
(* Regular expressions of the program.  Both have the shape                *)
(*     (.*?)(?=LOOKAHEAD)                                                  *)
(* used with re.search(...).group(): the leftmost, then shortest, run of   *)
(* non-newline characters that is followed by LOOKAHEAD.  A lookahead is a *)
(* sequence of literals and of ANY (an unescaped "."), optionally anchored *)
(* by "$".                                                                 *)

ANY == "<any>"

\* the lookahead `pat` (followed by "$" when anchored) matches s at k
LookaheadAt(s, pat, anchored, k) ==
    /\ k >= 1
    /\ k + Len(pat) - 1 <= Len(s)
    /\ \A j \in 1..Len(pat) :
          IF pat[j] = ANY THEN s[k + j - 1] # NL ELSE s[k + j - 1] = pat[j]
    /\ anchored =>
          \/ k + Len(pat) - 1 = Len(s)
          \/ k + Len(pat) = Len(s) /\ s[Len(s)] = NL

\* (.*?) tried at start a with the group ending before k: the group grows one
\* non-newline character at a time until the lookahead matches
RECURSIVE LazyFrom(_, _, _, _, _)
LazyFrom(s, pat, anchored, a, k) ==
    IF LookaheadAt(s, pat, anchored, k) THEN SubSeq(s, a, k - 1)
    ELSE IF k > Len(s) \/ s[k] = NL THEN None
    ELSE LazyFrom(s, pat, anchored, a, k + 1)

\* re.search tries the start positions from left to right
RECURSIVE SearchFrom(_, _, _, _)
SearchFrom(s, pat, anchored, a) ==
    IF a > Len(s) + 1 THEN None
    ELSE LET g == LazyFrom(s, pat, anchored, a, a) IN
         IF g # None THEN g
         ELSE SearchFrom(s, pat, anchored, a + 1)

\* re.search('(.*?)(?=...)', s): the match object's group(), or None
LazySearch(s, pat, anchored) == SearchFrom(s, pat, anchored, 1)

\* '(.*?)(?=.sambamba_output.txt$)'  (line 48): both dots are unescaped
SuffixPattern ==
    <<ANY>> \o <<"s", "a", "m", "b", "a", "m", "b", "a", "_", "o", "u", "t", "p", "u", "t">> \o <<ANY>> \o <<"t", "x", "t">>

\* '(.*?)(?=\.)'  (line 99): the dot is escaped
DotPattern == <<".">>

-----------------------------------------------------------------------------
(* Inputs.                                                                 *)

SambambaTail == <<"s", "a", "m", "b", "a", "m", "b", "a", "_", "o", "u", "t", "p", "u", "t">>

\* values of sys.argv[1]
FileNames ==
    { <<"s", ".">> \o SambambaTail \o <<".", "t", "x", "t">>,
      <<"s", "_">> \o SambambaTail \o <<".", "t", "x", "t">>,
      <<"s", ".", "t", "x", "t">> }

\* values of the 'GeneSymbol;Accession' column
Combined ==
    { <<"A", "B", ";", "N", "1", ".", "2">>,
      <<"A", ";", "N", "1", ".", "2">>,
      <<"C", ";", "N", "2", ".", "1", ";", "v", ".", "2">>,
      <<"C", ";", "N", "1">>,
      <<"A", "B">> }

Positions   == { <<"c", "1", ":", "1", "-", "9">> }
FullCoverage == 100
Percentages == { 95, FullCoverage }

\* of the rows with full coverage, which are dropped, two kinds are kept
DroppedCombined == { <<"A", "B", ";", "N", "1", ".", "2">>, <<"A", "B">> }

ReportRows ==
    { r \in [ combined : Combined, FullPosition : Positions,
              percentage30 : Percentages ] :
        r.percentage30 = FullCoverage => r.combined \in DroppedCombined }

\* rows of the HGNC dump: hgnc, approved, previous, aliases, refseq
RefEntries ==
    { [hgnc |-> <<"H", "1">>, approved |-> <<"A", "B">>, previous |-> NaN,
       aliases |-> NaN, refseq |-> <<"N", "1">>],
      [hgnc |-> <<"H", "2">>, approved |-> <<"D">>,
       previous |-> <<"E", ",", " ", "A">>, aliases |-> <<"C">>,
       refseq |-> <<"N", "1">>],
      [hgnc |-> <<"H", "3">>, approved |-> <<"D">>, previous |-> NaN,
       aliases |-> <<"F", ",", " ", "G">>, refseq |-> <<"N", "2">>] }

SeqsUpTo(S, n) == UNION { [1..k -> S] : k \in 0..n }

Init ==
    /\ input_file \in FileNames
    /\ pc = "start"
    /\ output_prefix = None
    /\ coverage_df = <<>>
    /\ issues_df = <<>>
    /\ hgnc_df = <<>>
    /\ hgncs = <<>>
    /\ acc_prefixes = <<>>
    /\ problem_genes = <<>>
    /\ error = NoError
    /\ text_file = Absent
    /\ xlsx_file = Absent

-----------------------------------------------------------------------------
(* create_df                                                               *)

\* str.split(';', n=1) of one value: at most two parts
SplitFirst(s) ==
    LET i == FirstIndex(s, ";") IN
    IF i = 0 THEN <<s>>
    ELSE <<SubSeq(s, 1, i - 1), SubSeq(s, i + 1, Len(s))>>

\* number of columns of  .str.split(';', n=1, expand=True)
ExpandWidth(rows) ==
    IF rows = <<>> THEN 0
    ELSE IF \E i \in 1..Len(rows) : Len(SplitFirst(rows[i].combined)) = 2
         THEN 2 ELSE 1

\* one row after the assignment at lines 42-43: short rows are padded with None
SplitRow(r) ==
    LET parts == SplitFirst(r.combined) IN
    [ combined     |-> r.combined,
      FullPosition |-> r.FullPosition,
      percentage30 |-> r.percentage30,
      GeneSymbol   |-> parts[1],
      Accession    |-> IF Len(parts) = 2 THEN parts[2] ELSE None ]

Abort(type, line, msg) ==
    /\ pc' = "aborted"
    /\ error' = [type |-> type, line |-> line, msg |-> msg]

\* the files the run may find on disk
Reports == SeqsUpTo(ReportRows, MaxRows)
Dumps   == SeqsUpTo(RefEntries, MaxRef)

create_df ==
    /\ pc = "start"
    /\ \E report \in Reports :     \* line 38: what read_csv returns
       IF ExpandWidth(report) # 2
       THEN \* two target columns, a frame of another width: ValueError
            /\ Abort("ValueError", 42, <<>>)
            /\ UNCHANGED <<output_prefix, coverage_df>>
       ELSE LET prefix == LazySearch(input_file, SuffixPattern, TRUE) IN
            IF prefix = None
            THEN \* None.group()
                 /\ Abort("AttributeError", 47, <<>>)
                 /\ UNCHANGED <<output_prefix, coverage_df>>
            ELSE /\ pc' = "loaded"
                 /\ output_prefix' = prefix
                 /\ coverage_df' = [i \in 1..Len(report) |-> SplitRow(report[i])]
                 /\ UNCHANGED error
    /\ UNCHANGED <<input_file, hgnc_df, issues_df, hgncs,
                   acc_prefixes, problem_genes, text_file, xlsx_file>>

-----------------------------------------------------------------------------
(* find_coverage_issues                                                    *)

\* variant: the comparison inverted
FlaggedInverted(row) == row.percentage30 = FullCoverage

\* the test at line 68
Flagged(row) == row.percentage30 # FullCoverage

\* the row built at lines 70-73
NewRow(row) ==
    [ gene          |-> row.GeneSymbol,
      accession     |-> row.Accession,
      exon_position |-> row.FullPosition,
      percent_x30   |-> row.percentage30 ]

\* variant: pd.concat([new_row, issues_df]), the new row put first
RECURSIVE FilterFromPrepend(_, _, _)
FilterFromPrepend(df, i, issues) ==
    IF i > Len(df) THEN issues
    ELSE IF Flagged(df[i])
         THEN FilterFromPrepend(df, i + 1, <<NewRow(df[i])>> \o issues)
         ELSE FilterFromPrepend(df, i + 1, issues)

\* the loop of lines 67-75 from row i on, issues being the frame so far
RECURSIVE FilterFrom(_, _, _)
FilterFrom(df, i, issues) ==
    IF i > Len(df) THEN issues
    ELSE IF Flagged(df[i])
         THEN FilterFrom(df, i + 1, issues \o <<NewRow(df[i])>>)
         ELSE FilterFrom(df, i + 1, issues)

FindCoverageIssues(df) == FilterFrom(df, 1, <<>>)

find_coverage_issues ==
    /\ pc = "loaded"
    /\ issues_df' = FindCoverageIssues(coverage_df)
    /\ pc' = "filtered"
    /\ UNCHANGED <<input_file, hgnc_df, output_prefix, coverage_df,
                   hgncs, acc_prefixes, problem_genes, error, text_file,
                   xlsx_file>>

-----------------------------------------------------------------------------
(* get_hgncs                                                               *)

Sentinel == <<"-">>

\* index of the last occurrence of character c in s, 0 if there is none
RECURSIVE LastIndexFrom(_, _, _)
LastIndexFrom(s, c, i) ==
    IF i < 1 THEN 0
    ELSE IF s[i] = c THEN i
    ELSE LastIndexFrom(s, c, i - 1)

\* variant: a greedy group, '(.*)(?=\.)', the text before the last "."
AccPrefixGreedy(acc) ==
    LET i == LastIndexFrom(acc, ".", Len(acc)) IN
    IF i = 0 THEN None ELSE SubSeq(acc, 1, i - 1)

\* line 99 for a str accession: the text before the first ".", or None
AccPrefix(acc) == LazySearch(acc, DotPattern, FALSE)

\* line 102: positions of the dump rows whose refseq equals the prefix
\* (an empty refseq cell is NaN and equals no text)
MatchIdx(dump, acc_prefix) ==
    { k \in 1..Len(dump) : IsStr(dump[k].refseq) /\ dump[k].refseq = acc_prefix }

\* variant: hgnc_idx[-1]
LastMatch(idx) == CHOOSE k \in idx : \A j \in idx : k >= j

\* line 103: hgnc_idx[0]
FirstMatch(idx) == CHOOSE k \in idx : \A j \in idx : k <= j

\* the assert's message, line 108
WronglyMatched(acc, hgnc) ==
    acc \o <<" ", "w", "r", "o", "n", "g", "l", "y", " ", "m", "a", "t", "c", "h", "e", "d", " ", "t", "o", " ">> \o hgnc

\* lines 105-107, evaluated left to right with `or` short-circuiting:
\* "pass", "fail", or "TypeError" when `in` meets a NaN cell first
RECURSIVE GeneInCells(_, _)
GeneInCells(gene, cells) ==
    IF cells = <<>> THEN "fail"
    ELSE IF ~IsStr(cells[1]) THEN "TypeError"
    ELSE IF Contains(cells[1], gene) THEN "pass"
    ELSE GeneInCells(gene, Tail(cells))

SymbolCheck(gene, hgnc_row) ==
    GeneInCells(gene, <<hgnc_row.approved, hgnc_row.previous, hgnc_row.aliases>>)

\* variant: the failed assertion is caught like the IndexError
MismatchCaught(acc, acc_prefix, hgnc_row) ==
    [ok |-> TRUE, hgnc |-> Sentinel, prefix |-> acc_prefix, error |-> NoError]

\* the assertion of lines 105-108 fails: AssertionError is not caught by
\* `except IndexError` and leaves the function
Mismatch(acc, acc_prefix, hgnc_row) ==
    [ok |-> FALSE, hgnc |-> <<>>, prefix |-> acc_prefix,
     error |-> [type |-> "AssertionError", line |-> 105,
                msg |-> WronglyMatched(acc, hgnc_row.hgnc)]]

\* one pass of the loop body, lines 97-113: the identifier to append, or the
\* exception that leaves the function
ResolveRow(dump, row) ==
    IF ~IsStr(row.accession)
    THEN [ok |-> FALSE, hgnc |-> <<>>, prefix |-> None,
          error |-> [type |-> "TypeError", line |-> 99, msg |-> <<>>]]
    ELSE LET acc_prefix == AccPrefix(row.accession) IN
         IF acc_prefix = None
         THEN [ok |-> FALSE, hgnc |-> <<>>, prefix |-> None,
               error |-> [type |-> "AttributeError", line |-> 99, msg |-> <<>>]]
         ELSE LET hgnc_idx == MatchIdx(dump, acc_prefix) IN
              IF hgnc_idx = {}
              THEN \* IndexError at line 103, caught at line 112
                   [ok |-> TRUE, hgnc |-> Sentinel, prefix |-> acc_prefix,
                    error |-> NoError]
              ELSE LET hgnc_row == dump[FirstMatch(hgnc_idx)]
                       check == SymbolCheck(row.gene, hgnc_row)
                   IN IF check = "pass"
                      THEN [ok |-> TRUE, hgnc |-> hgnc_row.hgnc,
                            prefix |-> acc_prefix, error |-> NoError]
                      ELSE IF check = "TypeError"
                      THEN [ok |-> FALSE, hgnc |-> <<>>, prefix |-> acc_prefix,
                            error |-> [type |-> "TypeError", line |-> 105,
                                       msg |-> <<>>]]
                      ELSE Mismatch(row.accession, acc_prefix, hgnc_row)

\* the loop of lines 95-115 from row i on; done is the list hgncs so far and
\* prefixes the values acc_prefix has taken
RECURSIVE ResolveFrom(_, _, _, _, _)
ResolveFrom(dump, issues, i, done, prefixes) ==
    IF i > Len(issues)
    THEN [hgncs |-> done, prefixes |-> prefixes, error |-> NoError]
    ELSE LET r == ResolveRow(dump, issues[i])
             seen == IF r.prefix = None THEN prefixes
                     ELSE Append(prefixes, r.prefix)
         IN IF r.ok
            THEN ResolveFrom(dump, issues, i + 1, Append(done, r.hgnc), seen)
            ELSE [hgncs |-> done, prefixes |-> seen, error |-> r.error]

\* line 117: the new column
WithHgnc(row, hgnc) ==
    [ gene          |-> row.gene,
      accession     |-> row.accession,
      exon_position |-> row.exon_position,
      percent_x30   |-> row.percent_x30,
      hgnc          |-> hgnc ]

get_hgncs ==
    /\ pc = "filtered"
    /\ \E dump \in Dumps :        \* lines 92-93: what read_csv returns
       LET res == ResolveFrom(dump, issues_df, 1, <<>>, <<>>) IN
       /\ hgnc_df' = dump
       /\ hgncs' = res.hgncs
       /\ acc_prefixes' = res.prefixes
       /\ IF res.error # NoError
          THEN /\ Abort(res.error.type, res.error.line, res.error.msg)
               /\ UNCHANGED issues_df
          ELSE /\ issues_df' = [i \in 1..Len(issues_df) |->
                                   WithHgnc(issues_df[i], res.hgncs[i])]
               /\ pc' = "resolved"
               /\ UNCHANGED error
    /\ UNCHANGED <<input_file, output_prefix, coverage_df, problem_genes,
                   text_file, xlsx_file>>

-----------------------------------------------------------------------------
(* unique_gene_list                                                        *)

\* the f-string of line 136
Identifier(row) ==
    row.gene \o <<TAB>> \o row.accession \o <<TAB>> \o row.hgnc

\* variant: compared with the entry emitted last only
InListLast(x, list) == list # <<>> /\ list[Len(list)] = x

\* line 138:  identifier in problem_genes
InList(x, list) == \E k \in 1..Len(list) : list[k] = x

\* the loop of lines 134-139 from row i on
RECURSIVE UniqueFrom(_, _, _)
UniqueFrom(issues, i, genes) ==
    IF i > Len(issues) THEN genes
    ELSE IF ~InList(Identifier(issues[i]), genes)
         THEN UniqueFrom(issues, i + 1, Append(genes, Identifier(issues[i])))
         ELSE UniqueFrom(issues, i + 1, genes)

UniqueGeneList(issues) == UniqueFrom(issues, 1, <<>>)

unique_gene_list ==
    /\ pc = "resolved"
    /\ problem_genes' = UniqueGeneList(issues_df)
    /\ pc' = "deduplicated"
    /\ UNCHANGED <<input_file, hgnc_df, output_prefix, coverage_df,
                   issues_df, hgncs, acc_prefixes, error, text_file,
                   xlsx_file>>

-----------------------------------------------------------------------------
(* create_outputs                                                          *)

TextSuffix == <<".", "l", "o", "w", "_", "c", "o", "v", "e", "r", "a", "g", "e", "_", "g", "e", "n", "e", "s", ".", "t", "x", "t">>
XlsxSuffix == <<".", "l", "o", "w", "_", "c", "o", "v", "e", "r", "a", "g", "e", "_", "g", "e", "n", "e", "_", "e", "x", "o", "n", "s", ".", "x", "l", "s", "x">>

\* the three writes of lines 159-161
TextContent(prefix, genes) ==
    <<"S", "a", "m", "p", "l", "e", ":", " ">> \o prefix \o <<NL, NL>>
    \o <<"G", "e", "n", "e", "s", " ", "w", "i", "t", "h", " ", "<", "1", "0", "0", "%", " ", "c", "o", "v", "e", "r", "a", "g", "e", " ", "a", "t", " ", "3", "0", "x", ":">> \o <<NL>>
    \o Join(genes, <<NL>>)

XlsxColumns == <<"gene", "accession", "exon_position", "percent_x30", "hgnc">>

\* variant: rows without a reference match are left out of the workbook
XlsxContentResolvedOnly(issues) ==
    LET kept == SelectSeq(issues, LAMBDA r : r.hgnc # Sentinel) IN
    [ columns |-> XlsxColumns,
      rows    |-> [i \in 1..Len(kept) |->
                     <<kept[i].gene, kept[i].accession, kept[i].exon_position,
                       kept[i].percent_x30, kept[i].hgnc>>] ]

\* to_excel(index=False): a header row, then one row per row of the frame
XlsxContent(issues) ==
    [ columns |-> XlsxColumns,
      rows    |-> [i \in 1..Len(issues) |->
                     <<issues[i].gene, issues[i].accession,
                       issues[i].exon_position, issues[i].percent_x30,
                       issues[i].hgnc>>] ]

\* variant: the workbook is written first, where the text file should be
create_outputs_workbook_first ==
    /\ pc = "deduplicated"
    /\ \E writable \in BOOLEAN :
         IF writable
         THEN /\ xlsx_file' = [written |-> TRUE,
                               name    |-> output_prefix \o XlsxSuffix,
                               content |-> XlsxContent(issues_df)]
              /\ pc' = "text_written"
              /\ UNCHANGED error
         ELSE /\ Abort("OSError", 163, <<>>)
              /\ UNCHANGED xlsx_file
    /\ UNCHANGED <<input_file, hgnc_df, output_prefix, coverage_df,
                   issues_df, hgncs, acc_prefixes, problem_genes, text_file>>

\* lines 155-161; open() or a write may fail with OSError
create_outputs_text ==
    /\ pc = "deduplicated"
    /\ \E writable \in BOOLEAN :
         IF writable
         THEN /\ text_file' = [written |-> TRUE,
                               name    |-> output_prefix \o TextSuffix,
                               content |-> TextContent(output_prefix,
                                                       problem_genes)]
              /\ pc' = "text_written"
              /\ UNCHANGED error
         ELSE /\ Abort("OSError", 158, <<>>)
              /\ UNCHANGED text_file
    /\ UNCHANGED <<input_file, hgnc_df, output_prefix, coverage_df,
                   issues_df, hgncs, acc_prefixes, problem_genes, xlsx_file>>

\* line 163; to_excel may fail with OSError
create_outputs_xlsx ==
    /\ pc = "text_written"
    /\ \E writable \in BOOLEAN :
         IF writable
         THEN /\ xlsx_file' = [written |-> TRUE,
                               name    |-> output_prefix \o XlsxSuffix,
                               content |-> XlsxContent(issues_df)]
              /\ pc' = "done"
              /\ UNCHANGED error
         ELSE /\ Abort("OSError", 163, <<>>)
              /\ UNCHANGED xlsx_file
    /\ UNCHANGED <<input_file, hgnc_df, output_prefix, coverage_df,
                   issues_df, hgncs, acc_prefixes, problem_genes, text_file>>

-----------------------------------------------------------------------------
(* main                                                                    *)

Next ==
    \/ create_df
    \/ find_coverage_issues
    \/ get_hgncs
    \/ unique_gene_list
    \/ create_outputs_text
    \/ create_outputs_xlsx

Spec == Init /\ [][Next]_vars

-----------------------------------------------------------------------------
(* Vocabulary of the properties, defined from the text and the tables      *)
(* alone (not from the operators above).                                   *)

HasChar(s, c) == IsStr(s) /\ \E i \in 1..Len(s) : s[i] = c

\* the text of s before its first c (s contains c)
Before(s, c) == SubSeq(s, 1, FirstIndex(s, c) - 1)

\* the parts of s between occurrences of c
RECURSIVE Split(_, _)
Split(s, c) ==
    LET i == FirstIndex(s, c) IN
    IF i = 0 THEN <<s>>
    ELSE <<SubSeq(s, 1, i - 1)>> \o Split(SubSeq(s, i + 1, Len(s)), c)

RECURSIVE Strip(_)
Strip(s) ==
    IF s = <<>> THEN s
    ELSE IF s[1] = " " THEN Strip(Tail(s))
    ELSE IF s[Len(s)] = " " THEN Strip(SubSeq(s, 1, Len(s) - 1))
    ELSE s

\* the symbols listed in one cell of the dump ("E, A" lists E and A)
Symbols(cell) ==
    IF ~IsStr(cell) THEN {}
    ELSE LET parts == Split(cell, ",") IN
         { Strip(parts[k]) : k \in 1..Len(parts) } \ { <<>> }

\* gene is one of the entry's approved, previous or alias symbols
IsSymbolOf(gene, e) ==
    gene \in Symbols(e.approved) \cup Symbols(e.previous) \cup Symbols(e.aliases)

\* positions of the report rows, as loaded, whose percentage is not 100
FlaggedIdx == { j \in 1..Len(coverage_df) : coverage_df[j].percentage30 # 100 }

\* the n-th smallest element of a set of positions
Nth(S, n) == CHOOSE j \in S : Cardinality({ k \in S : k <= j }) = n

\* an issue row carries the four fields of a loaded report row
SameRecord(ir, cr) ==
    /\ ir.gene = cr.GeneSymbol
    /\ ir.accession = cr.Accession
    /\ ir.exon_position = cr.FullPosition
    /\ ir.percent_x30 = cr.percentage30

\* find_coverage_issues has returned
Filtered ==
    \/ pc \in {"filtered", "resolved", "deduplicated", "text_written", "done"}
    \/ pc = "aborted" /\ error.line >= 99

\* get_hgncs has returned or raised
AbortedInResolve == pc = "aborted" /\ error.line \in 95..117
ResolveEnded ==
    \/ pc \in {"resolved", "deduplicated", "text_written", "done"}
    \/ pc = "aborted" /\ error.line >= 95

\* dump rows whose refseq column equals the text of acc before its first "."
Matching(acc) ==
    { k \in 1..Len(hgnc_df) : hgnc_df[k].refseq = Before(acc, ".") }

\* the record get_hgncs was working on when it raised
FailedRow == issues_df[Len(hgncs) + 1]

-----------------------------------------------------------------------------
(* C1: the issue filter's output has a row for a report row if and only if *)
(* that row's percentage30 is not exactly 100: no output row has           *)
(* percentage 100 and every report row with another percentage is present. *)
C1_IssuesIffNotFull ==
    Filtered =>
      /\ \A i \in 1..Len(issues_df) :
            /\ issues_df[i].percent_x30 # 100
            /\ \E j \in 1..Len(coverage_df) : SameRecord(issues_df[i], coverage_df[j])
      /\ \A j \in 1..Len(coverage_df) :
            coverage_df[j].percentage30 # 100 =>
               \E i \in 1..Len(issues_df) : SameRecord(issues_df[i], coverage_df[j])

C1_Witness ==
    /\ pc = "filtered"
    /\ \E j \in 1..Len(coverage_df) : coverage_df[j].percentage30 = 100
    /\ \E j \in 1..Len(coverage_df) : coverage_df[j].percentage30 # 100
    /\ Len(issues_df) >= 1

(* C5: the filter preserves order and count: the output has as many rows   *)
(* as the report has rows with percentage30 # 100, and its i-th row is the *)
(* i-th such report row (gene, accession, exon position, percentage).      *)
C5_FilterOrderAndCount ==
    Filtered =>
      /\ Len(issues_df) = Cardinality(FlaggedIdx)
      /\ \A i \in 1..Len(issues_df) :
            SameRecord(issues_df[i], coverage_df[Nth(FlaggedIdx, i)])

C5_Witness ==
    /\ pc = "filtered"
    /\ Len(coverage_df) > Len(issues_df)
    /\ Len(issues_df) >= 2
    /\ issues_df[1] # issues_df[2]


\* the smallest element of a non-empty set of positions
Min(S) == CHOOSE k \in S : \A j \in S : k <= j

\* text s ends with text e
EndsWith(s, e) == MatchesAt(s, e, Len(s) - Len(e) + 1)

FixedSuffix == <<".", "s", "a", "m", "b", "a", "m", "b", "a", "_", "o", "u", "t", "p", "u", "t", ".", "t", "x", "t">>

(* C2: for every issue record matched by a dump row, get_hgncs either      *)
(* assigns the matched row's identifier, and then the gene symbol is one   *)
(* of that row's approved, previous or alias symbols, or it aborts with    *)
(* the match-integrity error naming the accession and the identifier; it   *)
(* never assigns the identifier of a row that does not list the symbol.    *)
C2_AssignedOnlyIfListed ==
    ResolveEnded =>
      /\ \A i \in 1..Len(hgncs) :
            Matching(issues_df[i].accession) # {} =>
               \E k \in Matching(issues_df[i].accession) :
                  /\ hgncs[i] = hgnc_df[k].hgnc
                  /\ IsSymbolOf(issues_df[i].gene, hgnc_df[k])
      /\ ( /\ AbortedInResolve
           /\ HasChar(FailedRow.accession, ".")
           /\ Matching(FailedRow.accession) # {} )
         => /\ error.type = "AssertionError"
            /\ \E k \in Matching(FailedRow.accession) :
                  /\ Contains(error.msg, FailedRow.accession)
                  /\ Contains(error.msg, hgnc_df[k].hgnc)
                  /\ ~IsSymbolOf(FailedRow.gene, hgnc_df[k])

(* C3: an issue record whose accession prefix equals no dump row's refseq  *)
(* gets exactly the identifier "-", raises no error, and the records after *)
(* it are resolved too; "-" is assigned in that case only.                 *)
C3_SentinelIffNoMatch ==
    ResolveEnded =>
      /\ \A i \in 1..Len(hgncs) :
            hgncs[i] = <<"-">> <=> Matching(issues_df[i].accession) = {}
      /\ AbortedInResolve =>
            /\ Len(hgncs) < Len(issues_df)
            /\ ~( /\ HasChar(FailedRow.accession, ".")
                  /\ Matching(FailedRow.accession) = {} )
      /\ ~AbortedInResolve => Len(hgncs) = Len(issues_df)

C3_Witness ==
    /\ pc = "resolved"
    /\ Len(hgnc_df) >= 1
    /\ \E i, j \in 1..Len(hgncs) :
          /\ i < j
          /\ hgncs[i] = <<"-">>
          /\ hgncs[j] # <<"-">>

(* C6: when several dump rows have the record's accession prefix as        *)
(* refseq, the first of them in file order decides: its identifier is the  *)
(* one assigned, and the match-integrity error names it, even if a later   *)
(* row with the same refseq lists the gene symbol.                         *)
C6_FirstMatchDecides ==
    ResolveEnded =>
      /\ \A i \in 1..Len(hgncs) :
            Matching(issues_df[i].accession) # {} =>
               hgncs[i] = hgnc_df[Min(Matching(issues_df[i].accession))].hgnc
      /\ (AbortedInResolve /\ error.type = "AssertionError") =>
            /\ Matching(FailedRow.accession) # {}
            /\ EndsWith(error.msg,
                        hgnc_df[Min(Matching(FailedRow.accession))].hgnc)
            /\ ~IsSymbolOf(FailedRow.gene,
                           hgnc_df[Min(Matching(FailedRow.accession))])

C6_Witness ==
    /\ AbortedInResolve
    /\ error.type = "AssertionError"
    /\ \E k \in Matching(FailedRow.accession) :
          /\ k > Min(Matching(FailedRow.accession))
          /\ IsSymbolOf(FailedRow.gene, hgnc_df[k])

(* C7: the prefix looked up for a record is the text of its accession      *)
(* before the first "."; a record whose accession has no "." makes         *)
(* get_hgncs fail in the prefix extraction (line 99), with no identifier   *)
(* assigned to it, and that failure has no other cause.                    *)
C7_PrefixBeforeFirstDot ==
    ResolveEnded =>
      /\ \A i \in 1..Len(hgncs) :
            /\ HasChar(issues_df[i].accession, ".")
            /\ acc_prefixes[i] = Before(issues_df[i].accession, ".")
      /\ AbortedInResolve =>
            /\ error.line = 99 <=> ~HasChar(FailedRow.accession, ".")
            /\ error.line = 99 =>
                  /\ Len(acc_prefixes) = Len(hgncs)
                  /\ IsStr(FailedRow.accession) => error.type = "AttributeError"
            /\ error.line # 99 =>
                  /\ Len(acc_prefixes) = Len(hgncs) + 1
                  /\ acc_prefixes[Len(hgncs) + 1] = Before(FailedRow.accession, ".")
      /\ ~AbortedInResolve => Len(acc_prefixes) = Len(issues_df)

C7_Witness ==
    /\ AbortedInResolve
    /\ error.line = 99
    /\ error.type = "AttributeError"
    /\ \E i \in 1..Len(hgncs) :
          /\ Len(Split(issues_df[i].accession, ".")) > 2
          /\ acc_prefixes[i] = <<"N", "2">>

\* unique_gene_list has returned
Deduplicated ==
    \/ pc \in {"deduplicated", "text_written", "done"}
    \/ pc = "aborted" /\ error.line >= 155

Triple(i) == <<issues_df[i].gene, issues_df[i].accession, issues_df[i].hgnc>>

\* positions of the rows whose triple occurs at no earlier row
FirstSeen ==
    { i \in 1..Len(issues_df) : \A j \in 1..(i - 1) : Triple(j) # Triple(i) }

(* C4: unique_gene_list returns one entry per (gene, accession,            *)
(* identifier) triple of the resolved table: no two entries carry the same *)
(* triple, every triple of the table is carried by exactly one entry, and  *)
(* the entries are in the order of the triples' first rows.                *)
C4_UniqueInFirstSeenOrder ==
    Deduplicated =>
      /\ Len(problem_genes) = Cardinality(FirstSeen)
      /\ \A k \in 1..Len(problem_genes) :
            Split(problem_genes[k], TAB) = Triple(Nth(FirstSeen, k))
      /\ \A k, l \in 1..Len(problem_genes) :
            k # l => Split(problem_genes[k], TAB) # Split(problem_genes[l], TAB)

C4_Witness ==
    /\ pc = "deduplicated"
    /\ Len(issues_df) = 3
    /\ Triple(1) = Triple(3)
    /\ Triple(1) # Triple(2)
    /\ Len(problem_genes) = 2

(* C8: create_df returns only if the file name ends in the fixed suffix    *)
(* ".sambamba_output.txt" and every row's 'GeneSymbol;Accession' value     *)
(* splits on its first ";" into a gene symbol and an accession; it then    *)
(* returns the name without the suffix and the rows so split.              *)
C8_LoadedOnlyIfWellFormed ==
    pc = "loaded" =>
      /\ EndsWith(input_file, FixedSuffix)
      /\ output_prefix \o FixedSuffix = input_file
      /\ \A j \in 1..Len(coverage_df) :
            /\ HasChar(coverage_df[j].combined, ";")
            /\ coverage_df[j].GeneSymbol = Before(coverage_df[j].combined, ";")
            /\ coverage_df[j].GeneSymbol \o <<";">> \o coverage_df[j].Accession
                  = coverage_df[j].combined

\* the gene list of the text file: its lines after the three header lines
GeneLines(content) ==
    LET lines == Split(content, NL) IN
    { lines[k] : k \in 4..Len(lines) } \ { <<>> }

(* C9: in a run that completes, each report row with percentage30 # 100,   *)
(* rows resolved to "-" included, is one row of the workbook and its       *)
(* gene, accession, identifier line is in the text file's gene list; a row *)
(* with percentage30 = 100 gives no workbook row and no gene-list line.    *)
C9_FlaggedRowsReachBothOutputs ==
    pc = "done" =>
      LET rows == xlsx_file.content.rows
          genes == GeneLines(text_file.content)
      IN /\ Len(rows) = Cardinality(FlaggedIdx)
         /\ \A i \in 1..Len(rows) :
               LET cr == coverage_df[Nth(FlaggedIdx, i)] IN
               /\ rows[i][1] = cr.GeneSymbol
               /\ rows[i][2] = cr.Accession
               /\ rows[i][3] = cr.FullPosition
               /\ rows[i][4] = cr.percentage30
               /\ rows[i][4] # 100
               /\ rows[i][5] = hgncs[i]
               /\ (rows[i][1] \o <<TAB>> \o rows[i][2] \o <<TAB>> \o rows[i][5])
                     \in genes
         /\ \A g \in genes :
               \E i \in 1..Len(rows) :
                  g = rows[i][1] \o <<TAB>> \o rows[i][2] \o <<TAB>> \o rows[i][5]

C9_Witness ==
    /\ pc = "done"
    /\ \E j \in 1..Len(coverage_df) : coverage_df[j].percentage30 = 100
    /\ \E i \in 1..Len(issues_df) : issues_df[i].hgnc = <<"-">>
    /\ \E i \in 1..Len(issues_df) : issues_df[i].hgnc # <<"-">>

(* C10: no output file is written before every issue record is resolved:  *)
(* when create_df, find_coverage_issues or get_hgncs aborts, on whichever  *)
(* record, neither file has been touched; and the text file is written    *)
(* before the workbook, so a failure writing the workbook leaves the text  *)
(* file on disk.                                                           *)
C10_OutputsOnlyAfterResolution ==
    /\ (pc = "aborted" /\ error.line < 155) =>
          text_file = Absent /\ xlsx_file = Absent
    /\ pc \in {"start", "loaded", "filtered", "resolved", "deduplicated"} =>
          text_file = Absent /\ xlsx_file = Absent
    /\ text_file.written =>
          /\ Len(hgncs) = Len(issues_df)
          /\ \A i \in 1..Len(issues_df) : issues_df[i].hgnc = hgncs[i]
    /\ xlsx_file.written => text_file.written /\ pc = "done"
    /\ (pc = "aborted" /\ error.line = 163) =>
          text_file.written /\ xlsx_file = Absent

C10_Witness ==
    /\ AbortedInResolve
    /\ error.type = "AssertionError"
    /\ Len(issues_df) >= 2
    /\ Len(hgncs) = Len(issues_df) - 1
    /\ text_file = Absent
    /\ xlsx_file = Absent

====
